---- MODULE Spec2Model ----
(***************************************************************************)
(* AutoPost (post.js): a resumable batch job that publishes the posts of   *)
(* posts.json to Blogger, one at a time, with retry on rate limits, a      *)
(* progress cursor in progress.json and two title sets on disk.            *)
(*                                                                         *)
(* The model follows the first script of src/post.js (lines 1-355).  One   *)
(* behaviour is a sequence of runs of the script over the same working     *)
(* directory; the files persist from run to run, the in-memory state is    *)
(* rebuilt by every run.  The hosting client (blogger.posts.insert/list)   *)
(* and the file system (fs.writeFile/rename) are the environment: every    *)
(* call to them may succeed or fail.  Times are in milliseconds.           *)
(***************************************************************************)
EXTENDS Integers, Sequences, FiniteSets, TLC

\* ---------------------------------------------------------------- bounds
MaxPosts == 2
MaxRuns == 2
MaxCount == 60
CadencePosts == 11
Titles == {"A", "B"}

\* ------------------------------------------------------ program constants
MAX_RETRIES == 5
BASE_DELAY == 10000
QUOTA_DELAY == 3600000
RATE_429_DELAY == 60000
SAVE_EVERY == 5

VARIABLES
  \* the environment of the script
  envOk,                \* CLIENT_ID, CLIENT_SECRET, REFRESH_TOKEN, BLOG_ID all set
  postsFile,            \* posts.json: "ok", "missing" (ENOENT) or "unreadable"
  posts,                \* the content of posts.json when it can be read
  remote,               \* titles of the posts the blog holds
  \* the state files of the working directory
  postedIdsFile,        \* posted_ids.json ({} when absent)
  existingTitlesFile,   \* existing_titles.json ({} when absent)
  progressFile,         \* progress.json (the default record when absent)
  failedPostsFile,      \* failed_posts.json (<<>> when absent)
  reports,              \* the report_<timestamp>.json files this run has written
  \* the memory of the running script
  postsData, postedIds, existingTitles, progress,
  i, attempt, postCountSinceLastSave, wait,
  pc,                   \* the statement the script is at
  err,                  \* the exception being thrown to the driver
  exitCode,             \* -1 while the process runs
  exitAt,               \* which statement ended the process
  \* history, for the properties only
  run,                  \* the number of this run
  startCursor,          \* progress.lastProcessed as loaded by this run
  processed,            \* the indices this run has handed to the executor
  calls,                \* insert calls issued for the current item
  inFlight,             \* insert calls issued and not yet returned
  successes,            \* per title, how often insert has returned success
  exhaustedAt,          \* the index whose retries ran out in this run, or -1
  loopDone,             \* the loop test has failed: every index was iterated
  okIndices,            \* the indices this run ended with success or skipped
  unsaved,              \* cursor advances since progress.json was last written
  postedCount           \* a posted count the pacing rule is applied to

vars == << envOk, postsFile, posts, remote, postedIdsFile, existingTitlesFile,
           progressFile, failedPostsFile, reports, postsData, postedIds,
           existingTitles, progress, i, attempt, postCountSinceLastSave, wait,
           pc, err, exitCode, exitAt, run, startCursor, processed, calls,
           inFlight, successes, exhaustedAt, loopDone, okIndices, unsaved,
           postedCount >>

envVars == << envOk, postsFile, posts >>
fileVars == << postedIdsFile, existingTitlesFile, progressFile, failedPostsFile >>
exitVars == << exitCode, exitAt >>

\* ------------------------------------------------------------- data types
Post(t) == [title |-> t]

PostLists == UNION { [1..n -> {Post(t) : t \in Titles}] : n \in 0..MaxPosts }

DefaultProgress == [lastProcessed |-> -1, failed |-> << >>]

\* An error as the code inspects it: error.code, the patterns error.message
\* includes, and the reasons of error.errors.
Error(c, m, r) == [code |-> c, message |-> m, reasons |-> r]

NoError == Error(0, {}, {})

\* What fs.writeFile / fs.rename throw (error.code is a string such as 'EACCES').
FsError == Error(-1, {"fs"}, {})

\* The failures blogger.posts.insert can return.
InsertErrors ==
  { Error(429, {}, {}),
    Error(403, {"quotaExceeded"}, {"quotaExceeded"}),
    Error(403, {}, {"forbidden"}),
    Error(0, {"Daily Limit Exceeded"}, {}),
    Error(0, {"User Rate Limit Exceeded"}, {}),
    Error(0, {}, {"rateLimitExceeded"}),
    Error(500, {}, {}),
    Error(400, {"Rate limit exceeded"}, {}) }

\* ----------------------------------------------------------- pure helpers
TitleAt(k) == postsData[k + 1].title

\* a pacing rule that falls back to the base delay from 45 posts on
Delay_Dip(size) == IF size >= 40 /\ size < 45 THEN 30000 ELSE BASE_DELAY

\* a skip test that forgets the titles found on the blog
Known_OnlyPostedIds(title, ids, titles) == title \in ids

\* postedIds.has(title) || existingTitles.has(title)
Known(title, ids, titles) == title \in ids \/ title \in titles

IsRateLimitError(e) ==
  \/ e.code = 429
  \/ e.code = 403
  \/ "quotaExceeded" \in e.message
  \/ "Daily Limit Exceeded" \in e.message
  \/ "User Rate Limit Exceeded" \in e.message
  \/ "too many requests" \in e.message
  \/ e.reasons \cap {"rateLimitExceeded", "userRateLimitExceeded"} # {}

Pow2(n) == IF n <= 0 THEN 1 ELSE 2 ^ n

RetryWait(e, a) ==
  IF "quotaExceeded" \in e.message \/ e.code = 403 THEN QUOTA_DELAY
  ELSE IF e.code = 429 THEN RATE_429_DELAY
  ELSE BASE_DELAY * Pow2(a - 1)

\* a retry test that is off by one
ShouldRetry_OffByOne(e, a) == IsRateLimitError(e) /\ a <= MAX_RETRIES

\* isRateLimitError && attempt < RATE_LIMIT.MAX_RETRIES
ShouldRetry(e, a) == IsRateLimitError(e) /\ a < MAX_RETRIES

\* new Error(`Rate limit exceeded after ${attempt} attempts: ${error.message} ...`)
ExhaustedError(e) == Error(0, e.message \cup {"Rate limit exceeded"}, {})

\* a driver that never ends the run on a rate limit
IsJobFatal_Never(e) == FALSE

\* a driver that ends the run on every failure
IsJobFatal_Always(e) == TRUE

\* error.message.includes('Rate limit exceeded')
IsJobFatal(e) == "Rate limit exceeded" \in e.message

SuccessCount(p) == p.lastProcessed + 1 - Len(p.failed)

\* a checkpoint rule that saves on the last index only
ShouldSaveProgress_OnlyAtEnd(count, k, n) == k = n - 1

\* postCountSinceLastSave >= 5 || i === postsData.length - 1
ShouldSaveProgress(count, k, n) == count >= SAVE_EVERY \/ k = n - 1

Delay(size) ==
  IF size >= 40 /\ size < 45 THEN 30000
  ELSE IF size >= 45 THEN 33000
  ELSE BASE_DELAY

FailedEntry(k, title) == [index |-> k, title |-> title]

\* a catch block that records nothing
PushFailed_Nothing(p, k, title) == p

\* a catch block that also moves the cursor to the failed index
PushFailed_AdvancesCursor(p, k, title) ==
  [p EXCEPT !.failed = Append(@, FailedEntry(k, title)), !.lastProcessed = k]

\* progress.failed.push({ index: i, title: post.title, ... })
PushFailed(p, k, title) ==
  [p EXCEPT !.failed = Append(@, FailedEntry(k, title))]

Report(successCount, failedPosts, reason) ==
  [ terminationReason |-> reason,
    totalPostsAttempted |-> successCount + Len(failedPosts),
    successfulPosts |-> successCount,
    failedPosts |-> failedPosts,
    postedIdsCount |-> Cardinality(postedIdsFile),
    existingTitlesCount |-> Cardinality(existingTitlesFile) ]

\* --------------------------------------------------------------- the state
\* The working directory without state files and the script not yet started.
EmptyState ==
  /\ postedIdsFile = {}
  /\ existingTitlesFile = {}
  /\ progressFile = DefaultProgress
  /\ failedPostsFile = << >>
  /\ reports = << >>
  /\ postsData = << >>
  /\ postedIds = {}
  /\ existingTitles = {}
  /\ progress = DefaultProgress
  /\ postCountSinceLastSave = 0
  /\ exitCode = -1
  /\ exitAt = "none"
  /\ run = 1
  /\ startCursor = -1
  /\ processed = << >>
  /\ successes = [t \in Titles |-> 0]
  /\ exhaustedAt = -1
  /\ loopDone = FALSE
  /\ okIndices = {}
  /\ unsaved = 0

Init ==
  /\ envOk \in BOOLEAN
  /\ postsFile \in {"ok", "missing", "unreadable"}
  /\ posts \in PostLists
  /\ remote \in SUBSET Titles
  /\ EmptyState
  /\ i = 0
  /\ attempt = 1
  /\ wait = 0
  /\ pc = "start"
  /\ err = NoError
  /\ calls = 0
  /\ inFlight = 0
  /\ postedCount = 0

\* process.exit(code) at the statement `at`
Exit(code, at) ==
  /\ pc' = "exit"
  /\ exitCode' = code
  /\ exitAt' = at

\* an exception leaves postToBlogger(): the .catch handler runs next
Throw(e) ==
  /\ pc' = "fatal"
  /\ err' = e
  /\ UNCHANGED exitVars

\* ------------------------------------------------------------- the actions

\* validateEnvVars(): a missing required variable ends the process with 1.
ValidateEnvVars ==
  /\ pc = "start"
  /\ IF envOk
       THEN pc' = "loadPosts" /\ UNCHANGED exitVars
       ELSE Exit(1, "validateEnvVars")
  /\ UNCHANGED << envVars, remote, fileVars, reports, postsData, postedIds,
                  existingTitles, progress, i, attempt,
                  postCountSinceLastSave, wait, err, run, startCursor,
                  processed, calls, inFlight, successes, exhaustedAt,
                  loopDone, okIndices, unsaved, postedCount >>

\* loadJsonFile(filePath, defaultValue) applied to posts.json: the content,
\* the default on ENOENT, "threw" on every other failure.
LoadPostsJson ==
  CASE postsFile = "ok" -> [threw |-> FALSE, value |-> posts]
    [] postsFile = "missing" -> [threw |-> FALSE, value |-> << >>]
    [] OTHER -> [threw |-> TRUE, value |-> << >>]

\* postsData = await loadJsonFile(POSTS_JSON_PATH, []), exit(1) when it throws.
LoadPosts ==
  /\ pc = "loadPosts"
  /\ LET r == LoadPostsJson IN
       IF r.threw
         THEN Exit(1, "loadPosts") /\ UNCHANGED postsData
         ELSE /\ postsData' = r.value
              /\ pc' = "loadState"
              /\ UNCHANGED exitVars
  /\ UNCHANGED << envVars, remote, fileVars, reports, postedIds,
                  existingTitles, progress, i, attempt,
                  postCountSinceLastSave, wait, err, run, startCursor,
                  processed, calls, inFlight, successes, exhaustedAt,
                  loopDone, okIndices, unsaved, postedCount >>

\* progress = loadJsonFile(PROGRESS_FILE, ...); postedIds = loadPostedIds()
LoadState ==
  /\ pc = "loadState"
  /\ progress' = progressFile
  /\ postedIds' = postedIdsFile
  /\ startCursor' = progressFile.lastProcessed
  /\ unsaved' = 0
  /\ pc' = "fetchTitles"
  /\ UNCHANGED << envVars, remote, fileVars, reports, postsData,
                  existingTitles, i, attempt, postCountSinceLastSave, wait,
                  err, exitVars, run, processed, calls, inFlight, successes,
                  exhaustedAt, loopDone, okIndices, postedCount >>

\* a loop that ignores the cursor
StartIndex_FromZero(p) == 0

\* let i = progress.lastProcessed + 1
StartIndex(p) == p.lastProcessed + 1

\* fetchExistingTitles(): the cache when it is not empty, else the titles the
\* listing returned before it ended or failed, saved to the cache.
FetchExistingTitles ==
  /\ pc = "fetchTitles"
  /\ IF existingTitlesFile # {}
       THEN /\ existingTitles' = existingTitlesFile
            /\ pc' = "loop"
            /\ UNCHANGED << existingTitlesFile, err, exitVars >>
       ELSE \E allTitles \in SUBSET remote, saved \in BOOLEAN :
              IF saved
                THEN /\ existingTitlesFile' = allTitles
                     /\ existingTitles' = allTitles
                     /\ pc' = "loop"
                     /\ UNCHANGED << err, exitVars >>
                ELSE /\ Throw(FsError)
                     /\ UNCHANGED << existingTitlesFile, existingTitles >>
  /\ i' = StartIndex(progress)
  /\ postCountSinceLastSave' = 0
  /\ UNCHANGED << envVars, remote, postedIdsFile, progressFile,
                  failedPostsFile, reports, postsData, postedIds, progress,
                  attempt, wait, run, startCursor, processed, calls, inFlight,
                  successes, exhaustedAt, loopDone, okIndices, unsaved,
                  postedCount >>

\* for (let i = ...; i < postsData.length; i++): the loop test, and the item
\* handed to limiter.schedule(() => postToBloggerWithRetry(post, ...)).
LoopTest ==
  /\ pc = "loop"
  /\ IF i < Len(postsData)
       THEN /\ pc' = "executor"
            /\ attempt' = 1
            /\ calls' = 0
            /\ processed' = Append(processed, i)
            /\ UNCHANGED loopDone
       ELSE /\ pc' = "finalize"
            /\ loopDone' = TRUE
            /\ UNCHANGED << attempt, calls, processed >>
  /\ wait' = 0
  /\ UNCHANGED << envVars, remote, fileVars, reports, postsData, postedIds,
                  existingTitles, progress, i, postCountSinceLastSave, err,
                  exitVars, run, startCursor, inFlight, successes,
                  exhaustedAt, okIndices, unsaved, postedCount >>

\* an executor that records a skipped title as posted
ExecutorEntry_SkipMarksPosted ==
  /\ pc = "executor"
  /\ IF Known(TitleAt(i), postedIds, existingTitles)
       THEN /\ pc' = "advance"
            /\ okIndices' = okIndices \cup {i}
            /\ postedIds' = postedIds \cup {TitleAt(i)}
            /\ postedIdsFile' = postedIds'
            /\ UNCHANGED << calls, inFlight >>
       ELSE /\ pc' = "insert"
            /\ calls' = calls + 1
            /\ inFlight' = inFlight + 1
            /\ UNCHANGED << okIndices, postedIds, postedIdsFile >>
  /\ UNCHANGED << envVars, remote, existingTitlesFile, progressFile,
                  failedPostsFile, reports, postsData, existingTitles,
                  progress, i, attempt, postCountSinceLastSave, wait, err,
                  exitVars, run, startCursor, processed, successes,
                  exhaustedAt, loopDone, unsaved, postedCount >>

\* postToBloggerWithRetry, up to the insert call: a known title returns
\* { skipped: true }, any other title is sent to blogger.posts.insert.
ExecutorEntry ==
  /\ pc = "executor"
  /\ IF Known(TitleAt(i), postedIds, existingTitles)
       THEN /\ pc' = "advance"
            /\ okIndices' = okIndices \cup {i}
            /\ UNCHANGED << calls, inFlight >>
       ELSE /\ pc' = "insert"
            /\ calls' = calls + 1
            /\ inFlight' = inFlight + 1
            /\ UNCHANGED okIndices
  /\ UNCHANGED << envVars, remote, fileVars, reports, postsData, postedIds,
                  existingTitles, progress, i, attempt,
                  postCountSinceLastSave, wait, err, exitVars, run,
                  startCursor, processed, successes, exhaustedAt, loopDone,
                  unsaved, postedCount >>

\* The catch block of postToBloggerWithRetry for the error e: wait and call
\* itself with attempt + 1, or throw to the driver.
ExecutorCatch(e) ==
  IF ShouldRetry(e, attempt)
    THEN /\ wait' = RetryWait(e, attempt)
         /\ attempt' = attempt + 1
         /\ pc' = "executor"
         /\ UNCHANGED << err, exhaustedAt >>
    ELSE /\ err' = IF IsRateLimitError(e) THEN ExhaustedError(e) ELSE e
         /\ exhaustedAt' = IF IsRateLimitError(e) THEN i ELSE exhaustedAt
         /\ pc' = "caught"
         /\ UNCHANGED << attempt, wait >>

\* blogger.posts.insert resolves: the title joins both sets, both sets are
\* saved; a failing save is caught by the executor's own catch block.
InsertSucceeds ==
  /\ pc = "insert"
  /\ inFlight' = inFlight - 1
  /\ remote' = remote \cup {TitleAt(i)}
  /\ successes' = [successes EXCEPT ![TitleAt(i)] = @ + 1]
  /\ postedIds' = postedIds \cup {TitleAt(i)}
  /\ existingTitles' = existingTitles \cup {TitleAt(i)}
  /\ \E savedIds \in BOOLEAN, savedTitles \in BOOLEAN :
       /\ postedIdsFile' = IF savedIds THEN postedIds' ELSE postedIdsFile
       /\ existingTitlesFile' =
            IF savedIds /\ savedTitles THEN existingTitles' ELSE existingTitlesFile
       /\ IF savedIds /\ savedTitles
            THEN /\ pc' = "advance"
                 /\ okIndices' = okIndices \cup {i}
                 /\ UNCHANGED << attempt, wait, err, exhaustedAt >>
            ELSE ExecutorCatch(FsError) /\ UNCHANGED okIndices
  /\ UNCHANGED << envVars, progressFile, failedPostsFile, reports, postsData,
                  progress, i, postCountSinceLastSave, exitVars, run,
                  startCursor, processed, calls, loopDone, unsaved,
                  postedCount >>

\* blogger.posts.insert rejects with e.
InsertFails ==
  /\ pc = "insert"
  /\ inFlight' = inFlight - 1
  /\ \E e \in InsertErrors : ExecutorCatch(e)
  /\ UNCHANGED << envVars, remote, fileVars, reports, postsData, postedIds,
                  existingTitles, progress, i, postCountSinceLastSave,
                  exitVars, run, startCursor, processed, calls, successes,
                  loopDone, okIndices, unsaved, postedCount >>

\* The driver after the executor returned (success or skipped): the cursor
\* moves to i and is saved every fifth time and on the last index.  The
\* executor's frame (attempt, the wait, the call count) is gone by now.
Advance ==
  /\ pc = "advance"
  /\ progress' = [progress EXCEPT !.lastProcessed = i]
  /\ IF ShouldSaveProgress(postCountSinceLastSave + 1, i, Len(postsData))
       THEN \E saved \in BOOLEAN :
              IF saved
                THEN /\ progressFile' = progress'
                     /\ postCountSinceLastSave' = 0
                     /\ unsaved' = 0
                     /\ pc' = "pace"
                     /\ UNCHANGED err
                ELSE /\ postCountSinceLastSave' = postCountSinceLastSave + 1
                     /\ unsaved' = unsaved + 1
                     /\ err' = FsError
                     /\ pc' = "caught"
                     /\ UNCHANGED progressFile
       ELSE /\ postCountSinceLastSave' = postCountSinceLastSave + 1
            /\ unsaved' = unsaved + 1
            /\ pc' = "pace"
            /\ UNCHANGED << progressFile, err >>
  /\ attempt' = 1
  /\ calls' = 0
  /\ wait' = 0
  /\ UNCHANGED << envVars, remote, postedIdsFile, existingTitlesFile,
                  failedPostsFile, reports, postsData, postedIds,
                  existingTitles, i, exitVars, run, startCursor, processed,
                  inFlight, successes, exhaustedAt, loopDone, okIndices,
                  postedCount >>

\* generateReport(successCount, failedPosts, reason), its file written or not
GenerateReport(successCount, failedPosts, reason, written) ==
  reports' = IF written
               THEN Append(reports, Report(successCount, failedPosts, reason))
               ELSE reports

\* The driver's catch block: the failed entry is pushed and progress.json is
\* saved; an error whose message holds 'Rate limit exceeded' then ends the run
\* with a report and exit code 1, any other error lets the loop go on.
DriverCatch ==
  /\ pc = "caught"
  /\ progress' = PushFailed(progress, i, TitleAt(i))
  /\ \E saved \in BOOLEAN, written \in BOOLEAN :
       IF ~saved
         THEN /\ Throw(FsError)
              /\ UNCHANGED << progressFile, reports, unsaved >>
         ELSE /\ progressFile' = progress'
              /\ unsaved' = 0
              /\ IF IsJobFatal(err)
                   THEN /\ GenerateReport(SuccessCount(progress'),
                                          progress'.failed,
                                          "Terminated due to rate limit",
                                          written)
                        /\ IF written
                             THEN Exit(1, "rateLimit") /\ UNCHANGED err
                             ELSE Throw(FsError)
                   ELSE /\ pc' = "pace"
                        /\ err' = NoError
                        /\ UNCHANGED << reports, exitVars >>
  /\ attempt' = 1
  /\ calls' = 0
  /\ wait' = 0
  /\ UNCHANGED << envVars, remote, postedIdsFile, existingTitlesFile,
                  failedPostsFile, postsData, postedIds, existingTitles, i,
                  postCountSinceLastSave, run, startCursor, processed,
                  inFlight, successes, exhaustedAt, loopDone, okIndices,
                  postedCount >>

NextIndex(k) == k + 1

\* The end of the loop body: the pacing delay (none after the last index),
\* then i++.
Pace ==
  /\ pc = "pace"
  /\ wait' = IF i < Len(postsData) - 1 THEN Delay(Cardinality(postedIds)) ELSE 0
  /\ i' = NextIndex(i)
  /\ pc' = "loop"
  /\ UNCHANGED << envVars, remote, fileVars, reports, postsData, postedIds,
                  existingTitles, progress, attempt, postCountSinceLastSave,
                  err, exitVars, run, startCursor, processed, calls, inFlight,
                  successes, exhaustedAt, loopDone, okIndices, unsaved,
                  postedCount >>

\* After the loop: failed_posts.json when there are failures, the report of
\* normal completion, exit code 0.
Finalize ==
  /\ pc = "finalize"
  /\ \E savedFailed \in BOOLEAN, written \in BOOLEAN :
       IF Len(progress.failed) > 0 /\ ~savedFailed
         THEN /\ Throw(FsError)
              /\ UNCHANGED << failedPostsFile, reports >>
         ELSE /\ failedPostsFile' = IF Len(progress.failed) > 0
                                      THEN progress.failed
                                      ELSE failedPostsFile
              /\ GenerateReport(SuccessCount(progress), progress.failed,
                                "Completed normally", written)
              /\ IF written
                   THEN Exit(0, "completed") /\ UNCHANGED err
                   ELSE Throw(FsError)
  /\ UNCHANGED << envVars, remote, postedIdsFile, existingTitlesFile,
                  progressFile, postsData, postedIds, existingTitles,
                  progress, i, attempt, postCountSinceLastSave, wait, run,
                  startCursor, processed, calls, inFlight, successes,
                  exhaustedAt, loopDone, okIndices, unsaved, postedCount >>

\* a top-level handler that only exits
TopLevelCatch_NoReport ==
  /\ pc = "fatal"
  /\ Exit(1, "fatal")
  /\ UNCHANGED << envVars, remote, fileVars, reports, postsData, postedIds,
                  existingTitles, progress, i, attempt,
                  postCountSinceLastSave, wait, err, run, startCursor,
                  processed, calls, inFlight, successes, exhaustedAt,
                  loopDone, okIndices, unsaved, postedCount >>

\* postToBlogger().catch(...): progress.json is read again, a report of the
\* fatal error is written, exit code 1.  When the report cannot be written
\* the handler's promise rejects and node ends the process with code 1.
TopLevelCatch ==
  /\ pc = "fatal"
  /\ \E written \in BOOLEAN :
       /\ GenerateReport(SuccessCount(progressFile), progressFile.failed,
                         "Fatal error", written)
       /\ IF written THEN Exit(1, "fatal") ELSE Exit(1, "unhandledRejection")
  /\ UNCHANGED << envVars, remote, fileVars, postsData, postedIds,
                  existingTitles, progress, i, attempt,
                  postCountSinceLastSave, wait, err, run, startCursor,
                  processed, calls, inFlight, successes, exhaustedAt,
                  loopDone, okIndices, unsaved, postedCount >>

\* The scheduler starts the script again over the same working directory.
NextRun ==
  /\ pc = "exit"
  /\ run < MaxRuns
  /\ run' = run + 1
  /\ pc' = "start"
  /\ exitCode' = -1
  /\ exitAt' = "none"
  /\ err' = NoError
  /\ reports' = << >>
  /\ postsData' = << >>
  /\ postedIds' = {}
  /\ existingTitles' = {}
  /\ progress' = DefaultProgress
  /\ i' = 0
  /\ attempt' = 1
  /\ postCountSinceLastSave' = 0
  /\ wait' = 0
  /\ startCursor' = -1
  /\ processed' = << >>
  /\ calls' = 0
  /\ exhaustedAt' = -1
  /\ loopDone' = FALSE
  /\ okIndices' = {}
  /\ unsaved' = 0
  /\ UNCHANGED << envVars, remote, fileVars, inFlight, successes, postedCount
                  >>

\* the steps of one run of the script
RunStep ==
  \/ ValidateEnvVars
  \/ LoadPosts
  \/ LoadState
  \/ FetchExistingTitles
  \/ LoopTest
  \/ ExecutorEntry
  \/ InsertSucceeds
  \/ InsertFails
  \/ Advance
  \/ DriverCatch
  \/ Pace
  \/ Finalize
  \/ TopLevelCatch

Next ==
  \/ RunStep
  \/ NextRun

Spec == Init /\ [][Next]_vars

\* ------------------------------------------------- runs that go on
\* A list of MaxPosts posts and an empty blog.  Every call, wait and file
\* operation of a run returns: a run that can take a step takes one.
\* Nothing makes the scheduler start another run.
InitFair ==
  /\ envOk = TRUE
  /\ postsFile = "ok"
  /\ posts = [k \in 1..MaxPosts |-> Post(IF k % 2 = 1 THEN "A" ELSE "B")]
  /\ remote = {}
  /\ EmptyState
  /\ i = 0
  /\ attempt = 1
  /\ wait = 0
  /\ pc = "start"
  /\ err = NoError
  /\ calls = 0
  /\ inFlight = 0
  /\ postedCount = 0

FairSpec == InitFair /\ [][Next]_vars /\ WF_vars(RunStep)

\* --------------------------------------------------- a longer list
\* One run of the first script over a list long enough for the checkpoint
\* to fall before the last index; no title is on the blog yet.
InitLong ==
  /\ envOk = TRUE
  /\ postsFile = "ok"
  /\ posts = [k \in 1..CadencePosts |-> Post(IF k % 2 = 1 THEN "A" ELSE "B")]
  /\ remote = {}
  /\ EmptyState
  /\ i = 0
  /\ attempt = 1
  /\ wait = 0
  /\ pc = "start"
  /\ err = NoError
  /\ calls = 0
  /\ inFlight = 0
  /\ postedCount = 0

SpecLong == InitLong /\ [][RunStep]_vars

\* ------------------------------------------------ the earlier script
\* The second script of post.js (its own postToBloggerWithRetry and
\* postToBlogger) over the same working directory.  It validates no
\* environment variable and has no title cache, no report and no handler
\* on postToBlogger(); its cursor arithmetic, checkpoint and pacing are
\* those of the first script.

\* The failures blogger.posts.insert can return, as this script tells them
\* apart.
InsertErrorsV1 ==
  { Error(0, {"ECONNRESET"}, {}),
    Error(403, {"quotaExceeded"}, {"quotaExceeded"}),
    Error(500, {}, {}) }

\* (msg.includes('ECONNRESET') || msg.includes('quotaExceeded')) && attempt < MAX_RETRIES
ShouldRetryV1(e, a) ==
  /\ ("ECONNRESET" \in e.message \/ "quotaExceeded" \in e.message)
  /\ a < MAX_RETRIES

\* msg.includes('quotaExceeded') ? QUOTA_DELAY : BASE_DELAY * 2
RetryWaitV1(e) ==
  IF "quotaExceeded" \in e.message THEN QUOTA_DELAY ELSE BASE_DELAY * 2

InitV1 == Init /\ envOk = TRUE

\* postsData = JSON.parse(await fs.readFile(POSTS_JSON_PATH)), exit(1) on
\* any failure.
LoadPostsV1 ==
  /\ pc = "start"
  /\ IF postsFile = "ok"
       THEN /\ postsData' = posts
            /\ pc' = "loadState"
            /\ UNCHANGED exitVars
       ELSE Exit(1, "loadPosts") /\ UNCHANGED postsData
  /\ UNCHANGED << envVars, remote, fileVars, reports, postedIds,
                  existingTitles, progress, i, attempt,
                  postCountSinceLastSave, wait, err, run, startCursor,
                  processed, calls, inFlight, successes, exhaustedAt,
                  loopDone, okIndices, unsaved, postedCount >>

\* progress.json and posted_ids.json are read; fetchExistingTitles() lists
\* the blog, keeping the titles it got before the listing ended or failed.
LoadStateV1 ==
  /\ pc = "loadState"
  /\ progress' = progressFile
  /\ postedIds' = postedIdsFile
  /\ startCursor' = progressFile.lastProcessed
  /\ \E allTitles \in SUBSET remote : existingTitles' = allTitles
  /\ i' = StartIndex(progress')
  /\ postCountSinceLastSave' = 0
  /\ unsaved' = 0
  /\ pc' = "loop"
  /\ UNCHANGED << envVars, remote, fileVars, reports, postsData, attempt,
                  wait, err, exitVars, run, processed, calls, inFlight,
                  successes, exhaustedAt, loopDone, okIndices, postedCount >>

\* for (let i = ...; i < postsData.length; i++)
LoopTestV1 ==
  /\ pc = "loop"
  /\ IF i < Len(postsData)
       THEN /\ pc' = "duplicate"
            /\ processed' = Append(processed, i)
            /\ UNCHANGED loopDone
       ELSE /\ pc' = "finalize"
            /\ loopDone' = TRUE
            /\ UNCHANGED processed
  /\ attempt' = 1
  /\ calls' = 0
  /\ wait' = 0
  /\ UNCHANGED << envVars, remote, fileVars, reports, postsData, postedIds,
                  existingTitles, progress, i, postCountSinceLastSave, err,
                  exitVars, run, startCursor, inFlight, successes,
                  exhaustedAt, okIndices, unsaved, postedCount >>

\* if (existingTitles.has(title) || postedIds.has(title)): the title joins
\* postedIds, posted_ids.json is written, and `continue` goes to i++ past
\* the cursor update and the pacing delay.
DuplicateTestV1 ==
  /\ pc = "duplicate"
  /\ IF Known(TitleAt(i), postedIds, existingTitles)
       THEN /\ postedIds' = postedIds \cup {TitleAt(i)}
            /\ \E saved \in BOOLEAN :
                 IF saved
                   THEN /\ postedIdsFile' = postedIds'
                        /\ okIndices' = okIndices \cup {i}
                        /\ i' = NextIndex(i)
                        /\ pc' = "loop"
                        /\ UNCHANGED err
                   ELSE /\ err' = FsError
                        /\ pc' = "caught"
                        /\ UNCHANGED << postedIdsFile, okIndices, i >>
       ELSE /\ pc' = "executor"
            /\ UNCHANGED << postedIds, postedIdsFile, okIndices, i, err >>
  /\ UNCHANGED << envVars, remote, existingTitlesFile, progressFile,
                  failedPostsFile, reports, postsData, existingTitles,
                  progress, attempt, postCountSinceLastSave, wait, exitVars,
                  run, startCursor, processed, calls, inFlight, successes,
                  exhaustedAt, loopDone, unsaved, postedCount >>

\* postToBloggerWithRetry of this script, up to the insert call
ExecutorEntryV1 ==
  /\ pc = "executor"
  /\ IF TitleAt(i) \in postedIds
       THEN /\ pc' = "advance"
            /\ okIndices' = okIndices \cup {i}
            /\ UNCHANGED << calls, inFlight >>
       ELSE /\ pc' = "insert"
            /\ calls' = calls + 1
            /\ inFlight' = inFlight + 1
            /\ UNCHANGED okIndices
  /\ UNCHANGED << envVars, remote, fileVars, reports, postsData, postedIds,
                  existingTitles, progress, i, attempt,
                  postCountSinceLastSave, wait, err, exitVars, run,
                  startCursor, processed, successes, exhaustedAt, loopDone,
                  unsaved, postedCount >>

\* The catch block of this script's postToBloggerWithRetry: wait and call
\* itself again, or rethrow the error as it is.
ExecutorCatchV1(e) ==
  IF ShouldRetryV1(e, attempt)
    THEN /\ wait' = RetryWaitV1(e)
         /\ attempt' = attempt + 1
         /\ pc' = "executor"
         /\ UNCHANGED err
    ELSE /\ err' = e
         /\ pc' = "caught"
         /\ UNCHANGED << attempt, wait >>

\* blogger.posts.insert resolves: the title joins postedIds, which is saved
InsertSucceedsV1 ==
  /\ pc = "insert"
  /\ inFlight' = inFlight - 1
  /\ remote' = remote \cup {TitleAt(i)}
  /\ successes' = [successes EXCEPT ![TitleAt(i)] = @ + 1]
  /\ postedIds' = postedIds \cup {TitleAt(i)}
  /\ \E savedIds \in BOOLEAN :
       IF savedIds
         THEN /\ postedIdsFile' = postedIds'
              /\ okIndices' = okIndices \cup {i}
              /\ pc' = "advance"
              /\ UNCHANGED << attempt, wait, err >>
         ELSE /\ ExecutorCatchV1(FsError)
              /\ UNCHANGED << postedIdsFile, okIndices >>
  /\ UNCHANGED << envVars, existingTitlesFile, progressFile,
                  failedPostsFile, reports, postsData, existingTitles,
                  progress, i, postCountSinceLastSave, exitVars, run,
                  startCursor, processed, calls, exhaustedAt, loopDone,
                  unsaved, postedCount >>

\* blogger.posts.insert rejects with e.
InsertFailsV1 ==
  /\ pc = "insert"
  /\ inFlight' = inFlight - 1
  /\ \E e \in InsertErrorsV1 : ExecutorCatchV1(e)
  /\ UNCHANGED << envVars, remote, fileVars, reports, postsData, postedIds,
                  existingTitles, progress, i, postCountSinceLastSave,
                  exitVars, run, startCursor, processed, calls, successes,
                  exhaustedAt, loopDone, okIndices, unsaved, postedCount >>

\* The driver's catch block of this script: the failed entry is pushed and
\* progress.json is written; the loop goes on whatever the error was.  A
\* failing write rejects postToBlogger(), which nothing handles: node ends
\* the process with code 1.
DriverCatchV1 ==
  /\ pc = "caught"
  /\ progress' = PushFailed(progress, i, TitleAt(i))
  /\ \E saved \in BOOLEAN :
       IF saved
         THEN /\ progressFile' = progress'
              /\ unsaved' = 0
              /\ pc' = "pace"
              /\ err' = NoError
              /\ UNCHANGED exitVars
         ELSE /\ Exit(1, "unhandledRejection")
              /\ UNCHANGED << progressFile, unsaved, err >>
  /\ attempt' = 1
  /\ calls' = 0
  /\ wait' = 0
  /\ UNCHANGED << envVars, remote, postedIdsFile, existingTitlesFile,
                  failedPostsFile, reports, postsData, postedIds,
                  existingTitles, i, postCountSinceLastSave, run,
                  startCursor, processed, inFlight, successes, exhaustedAt,
                  loopDone, okIndices, postedCount >>

\* After the loop: failed_posts.json when there are failures, exit code 0.
FinalizeV1 ==
  /\ pc = "finalize"
  /\ \E savedFailed \in BOOLEAN :
       IF Len(progress.failed) > 0 /\ ~savedFailed
         THEN Exit(1, "unhandledRejection") /\ UNCHANGED failedPostsFile
         ELSE /\ failedPostsFile' = IF Len(progress.failed) > 0
                                      THEN progress.failed
                                      ELSE failedPostsFile
              /\ Exit(0, "completed")
  /\ UNCHANGED << envVars, remote, postedIdsFile, existingTitlesFile,
                  progressFile, reports, postsData, postedIds,
                  existingTitles, progress, i, attempt,
                  postCountSinceLastSave, wait, err, run, startCursor,
                  processed, calls, inFlight, successes, exhaustedAt,
                  loopDone, okIndices, unsaved, postedCount >>

\* The cursor update with its checkpoint (lines 529-535) and the pacing
\* delay (lines 549-556) are those of the first script: Advance and Pace
\* are shared, and so is the scheduler.
NextV1 ==
  \/ LoadPostsV1
  \/ LoadStateV1
  \/ LoopTestV1
  \/ DuplicateTestV1
  \/ ExecutorEntryV1
  \/ InsertSucceedsV1
  \/ InsertFailsV1
  \/ Advance
  \/ DriverCatchV1
  \/ Pace
  \/ FinalizeV1
  \/ NextRun

SpecV1 == InitV1 /\ [][NextV1]_vars

\* ------------------------------------------- the pacing rule on its own
\* The delay of the loop body is a function of postedIds.size alone; it is
\* applied here to every posted count up to MaxCount, and again each time
\* the count has grown by one publication.
pacingFrame ==
  << envVars, remote, fileVars, reports, postsData, postedIds,
     existingTitles, progress, i, attempt, postCountSinceLastSave, err,
     exitVars, run, startCursor, processed, calls, inFlight, successes,
     exhaustedAt, loopDone, okIndices, unsaved >>

InitPacing ==
  /\ envOk = TRUE
  /\ postsFile = "ok"
  /\ posts = << >>
  /\ remote = {}
  /\ EmptyState
  /\ i = 0
  /\ attempt = 1
  /\ wait = 0
  /\ pc = "delay"
  /\ err = NoError
  /\ calls = 0
  /\ inFlight = 0
  /\ postedCount \in 0..MaxCount

\* let delay = BASE_DELAY; if (size >= 40 && size < 45) ... else if (size >= 45) ...
PickDelay ==
  /\ pc = "delay"
  /\ wait' = Delay(postedCount)
  /\ pc' = "delayed"
  /\ UNCHANGED << pacingFrame, postedCount >>

\* one more title has joined postedIds when the delay is picked again
PickDelayAfterPost ==
  /\ pc = "delayed"
  /\ postedCount < MaxCount
  /\ postedCount' = postedCount + 1
  /\ wait' = Delay(postedCount')
  /\ UNCHANGED << pacingFrame, pc >>

NextPacing ==
  \/ PickDelay
  \/ PickDelayAfterPost

SpecPacing == InitPacing /\ [][NextPacing]_vars

\* ------------------------------- the executor's catch block on its own
\* What the try block of postToBloggerWithRetry can throw: a rejection of
\* blogger.posts.insert, or the failure of a save after the insert.
ThrownErrors == InsertErrors \cup {FsError}

catchFrame ==
  << envVars, remote, fileVars, reports, postsData, postedIds,
     existingTitles, progress, i, postCountSinceLastSave, exitVars, run,
     startCursor, processed, calls, successes, loopDone, okIndices, unsaved,
     postedCount >>

\* The item at index i is at its attempt-th call, which has thrown err.
InitCatch ==
  /\ envOk = TRUE
  /\ postsFile = "ok"
  /\ posts = << >>
  /\ remote = {}
  /\ EmptyState
  /\ i \in 0..(MaxPosts - 1)
  /\ attempt \in 1..MAX_RETRIES
  /\ calls = attempt
  /\ wait = 0
  /\ pc = "insert"
  /\ err \in ThrownErrors
  /\ inFlight = 1
  /\ postedCount = 0

\* catch (error) { ... } of postToBloggerWithRetry for the thrown error
CatchError ==
  /\ pc = "insert"
  /\ inFlight' = inFlight - 1
  /\ ExecutorCatch(err)
  /\ UNCHANGED catchFrame

NextCatch == CatchError

SpecCatch == InitCatch /\ [][NextCatch]_vars

\* ---------------------------------------------------------- the properties

TitlesKnown == postedIds \cup existingTitles \cup postedIdsFile \cup existingTitlesFile

\* C1 (idempotent resume): whenever an insert call is issued, in the first
\* run or in a later one, the title of the item is at that moment neither in
\* the Posted-Identifier Set nor in the Existing-Title set, in memory or on disk.
C1_IdempotentResume ==
  [][calls' = calls + 1 => TitleAt(i) \notin TitlesKnown]_vars

\* a second run skips, without a call, a title the first run has persisted
C1_Witness ==
  /\ run = 2
  /\ pc = "advance"
  /\ calls = 0
  /\ TitleAt(i) \in postedIdsFile

\* C2 (at most one success per title): over all runs that share the state
\* files, insert returns success at most once for each title.
C2_AtMostOneSuccess == \A t \in Titles : successes[t] <= 1

\* C3 (retry bound): at most MAX_RETRIES insert calls are issued for one item.
C3_RetryBound == calls <= MAX_RETRIES

\* the executor raises to the driver after its MAX_RETRIES-th call
C3_Witness ==
  /\ pc = "caught"
  /\ exhaustedAt = i
  /\ calls = MAX_RETRIES

RateLimitReason == "Terminated due to rate limit"

HasReport(reason) ==
  \E k \in 1..Len(reports) : reports[k].terminationReason = reason

PastStartup == exitAt \notin {"validateEnvVars", "loadPosts"}

\* C4 as stated (rate-limit exhaustion is job-fatal): once the retries of an
\* item ran out on rate-limit errors, no insert call follows for this or a
\* later index in the run, and the process does not exit without a report
\* that names the rate limit.
C4_RateLimitReportAlways ==
  exhaustedAt >= 0 =>
    /\ pc \in {"caught", "fatal", "exit"}
    /\ i = exhaustedAt
    /\ pc = "exit" => HasReport(RateLimitReason)

\* C4 as amended: once the retries of an item ran out on rate-limit errors no
\* insert call follows in the run and the process exits with code 1; it
\* exits with the report that names the rate limit, unless the write of
\* progress.json or of that report failed, and then it exits through the
\* top-level handler without such a report.
C4_RateLimitJobFatal ==
  exhaustedAt >= 0 =>
    /\ pc \in {"caught", "fatal", "exit"}
    /\ i = exhaustedAt
    /\ inFlight = 0
    /\ pc = "exit" =>
         /\ exitCode = 1
         /\ \/ /\ exitAt = "rateLimit"
               /\ Len(reports) = 1
               /\ HasReport(RateLimitReason)
            \/ /\ exitAt \in {"fatal", "unhandledRejection"}
               /\ err = FsError
               /\ ~HasReport(RateLimitReason)

\* the run has ended on the rate limit, its report written
C4_Witness ==
  /\ pc = "exit"
  /\ exitAt = "rateLimit"
  /\ exhaustedAt >= 0
  /\ HasReport(RateLimitReason)

ItemLocalFailure == pc = "caught" /\ exhaustedAt = -1

\* C5 as stated (per-item failures are item-local): a failure of an item
\* that is no rate-limit exhaustion adds exactly one failed entry for the
\* index and the loop goes on; it never ends the run.
C5_ItemLocalNeverEndsRun ==
  [][ItemLocalFailure =>
       /\ progress'.failed = Append(progress.failed, FailedEntry(i, TitleAt(i)))
       /\ pc' = "pace"]_vars

\* C5 as amended: such a failure adds exactly one failed entry for the index
\* and leaves lastProcessed alone; the loop goes on with the next index when
\* the write of progress.json succeeds and the message of the error does not
\* hold 'Rate limit exceeded'.  A failing write ends the run through the
\* top-level handler, such a message ends it like a rate-limit exhaustion.
C5_ItemLocalFailure ==
  /\ [][ItemLocalFailure =>
         /\ progress'.failed = Append(progress.failed, FailedEntry(i, TitleAt(i)))
         /\ progress'.lastProcessed = progress.lastProcessed
         /\ LET fatalMessage == "Rate limit exceeded" \in err.message IN
              \/ ~fatalMessage /\ pc' = "pace" /\ progressFile' = progress'
              \/ ~fatalMessage /\ pc' = "fatal" /\ progressFile' = progressFile
              \/ fatalMessage /\ pc' \in {"exit", "fatal"}]_vars
  /\ [][pc = "pace" => pc' = "loop" /\ i' = i + 1]_vars
  /\ [][(pc = "loop" /\ i < Len(postsData)) =>
          pc' = "executor" /\ processed' = Append(processed, i)]_vars

\* index i - 1 has failed in this run and the loop has gone on to index i
C5_Witness ==
  /\ run = 1
  /\ pc = "executor"
  /\ exhaustedAt = -1
  /\ \E k \in 1..Len(progress.failed) : progress.failed[k].index = i - 1

InLoopBody == pc \in {"executor", "insert", "advance", "caught", "pace"}

\* C6 (resume position and order): the indices a run with loaded cursor k
\* hands to the executor are k+1, k+2, ... in this order, each once, none of
\* them <= k; the run that completes has handed all of k+1 .. N-1; at most
\* one insert call is in flight.
C6_ResumeOrder ==
  /\ \A j \in 1..Len(processed) : processed[j] = startCursor + j
  /\ InLoopBody => Len(processed) >= 1 /\ processed[Len(processed)] = i
  /\ inFlight <= 1
  /\ exitAt = "completed" =>
       Len(processed) = IF Len(postsData) > startCursor + 1
                          THEN Len(postsData) - (startCursor + 1)
                          ELSE 0

\* a resumed run has completed after processing the indices past its cursor
C6_Witness ==
  /\ run = 2
  /\ startCursor >= 0
  /\ exitAt = "completed"
  /\ Len(processed) >= 1

\* C7 (monotonic cursor): within a run the lastProcessed of progress.json
\* never decreases from one write to the next and is never below the value
\* the run has loaded.
C7_MonotonicCursor ==
  /\ [](progressFile.lastProcessed >= startCursor)
  /\ [](pc \notin {"start", "loadPosts", "loadState"} =>
          progress.lastProcessed >= startCursor)
  /\ [][run' = run =>
          progressFile'.lastProcessed >= progressFile.lastProcessed]_vars

\* the first run has written progress.json for the failure of index 0 and
\* again, with a higher cursor, for index 1
C7_Witness ==
  /\ run = 1
  /\ pc = "pace"
  /\ Len(progressFile.failed) = 1
  /\ progressFile.failed[1].index = 0
  /\ progressFile.lastProcessed = 1

AbortPath ==
  \/ ~envOk
  \/ postsFile # "ok"
  \/ exhaustedAt >= 0
  \/ exitAt \in {"fatal", "unhandledRejection"}

\* C8 (exit code): the process exits with 0 exactly when the loop has
\* iterated over every index, and with a code other than 0 on every abort
\* path: missing credentials, posts.json missing or unreadable, rate-limit
\* exhaustion, a failure that reaches the top-level handler.
C8_ExitCode ==
  pc = "exit" =>
    /\ (exitCode = 0) <=> loopDone
    /\ AbortPath => exitCode # 0

\* C9 (input load failure aborts at startup): with posts.json missing or
\* unreadable the run ends at the load of posts.json with exit code 1: no
\* state is loaded, no item processed, no insert call made, no report written.
C9_InputLoadFailureAborts ==
  (envOk /\ postsFile # "ok") =>
    /\ pc \in {"start", "loadPosts", "exit"}
    /\ pc = "exit" => exitAt = "loadPosts" /\ exitCode = 1
    /\ processed = << >>
    /\ calls = 0
    /\ reports = << >>

\* C10 as stated (a report is always produced): a run that got past startup
\* and input loading has written a report when the process exits.
C10_ReportAlways ==
  (pc = "exit" /\ PastStartup) => Len(reports) >= 1

\* C10 as amended: such a run exits with exactly one report written, of
\* normal completion, of the rate limit or of the fatal error according to
\* the exit path, unless the report of the top-level handler could not be
\* generated: the process then ends on the rejected handler with no report.
C10_ReportUnlessHandlerFails ==
  (pc = "exit" /\ PastStartup) =>
    \/ /\ exitAt = "completed"
       /\ Len(reports) = 1
       /\ HasReport("Completed normally")
    \/ /\ exitAt = "rateLimit"
       /\ Len(reports) = 1
       /\ HasReport(RateLimitReason)
    \/ /\ exitAt = "fatal"
       /\ Len(reports) = 1
       /\ HasReport("Fatal error")
    \/ /\ exitAt = "unhandledRejection"
       /\ reports = << >>

\* a failing write inside the loop has ended the run with a report
C10_Witness ==
  /\ pc = "exit"
  /\ exitAt = "fatal"
  /\ ~loopDone
  /\ Len(processed) >= 1
  /\ HasReport("Fatal error")

\* C11: skipping has no effects.  When the executor is entered with a title
\* that is in the Posted-Identifier Set or in the Existing-Title set, it
\* returns Skipped: no insert call is issued, and the two in-memory sets,
\* posted_ids.json and existing_titles.json are left as they were.
C11_SkipNoEffects ==
  [][(pc = "executor"
        /\ (TitleAt(i) \in postedIds \/ TitleAt(i) \in existingTitles))
       => /\ pc' = "advance"
          /\ i \in okIndices'
          /\ calls' = calls
          /\ inFlight' = inFlight
          /\ UNCHANGED << postedIds, existingTitles, postedIdsFile,
                          existingTitlesFile, remote >>]_vars

\* an item was skipped for a title the blog already holds, and the title is
\* still not in the Posted-Identifier Set
C11_Witness ==
  /\ pc = "advance"
  /\ calls = 0
  /\ TitleAt(i) \in existingTitles \ postedIds
  /\ TitleAt(i) \notin postedIdsFile

\* C12: the pacing delay is a step function of the posted count alone: the
\* base delay of 10 s below 40, 30 s from 40 to 44, 33 s from 45 on; so it
\* never decreases when the posted count grows.
C12_PacingStep ==
  [][pc' = "delayed"
       => /\ wait' = IF postedCount' < 40 THEN 10000
                     ELSE IF postedCount' <= 44 THEN 30000
                     ELSE 33000
          /\ (pc = "delayed" /\ postedCount' > postedCount => wait' >= wait)]_vars

\* the delay picked at the last threshold
C12_Witness == pc = "delayed" /\ postedCount = 45 /\ wait = 33000

\* A quota failure in the specification's terms: HTTP 403 with a
\* quota-related reason, or a quotaExceeded / Daily Limit Exceeded message.
QuotaFailure(e) ==
  \/ e.code = 403 /\ e.reasons \cap {"quotaExceeded", "dailyLimitExceeded"} # {}
  \/ "quotaExceeded" \in e.message
  \/ "Daily Limit Exceeded" \in e.message

\* A rate-limit failure in the specification's terms.
RateLimitFailure(e) ==
  \/ e.code = 429
  \/ "User Rate Limit Exceeded" \in e.message
  \/ "too many requests" \in e.message
  \/ e.reasons \cap {"rateLimitExceeded", "userRateLimitExceeded"} # {}

\* C13: a failed attempt is retried only when its error is a quota failure
\* or a rate-limit failure; every other error goes to the driver at once,
\* with no further insert call and no wait.
C13_RetryOnlyQuotaOrRateLimit ==
  [][(pc = "insert" /\ pc' \in {"executor", "caught"}
        /\ ~QuotaFailure(err) /\ ~RateLimitFailure(err))
       => /\ pc' = "caught"
          /\ wait' = wait
          /\ calls' = calls
          /\ attempt' = attempt]_vars

\* C14: the wait before a retry is the quota cooldown for a quota failure
\* (the Daily Limit Exceeded pattern included), 60 s for an HTTP 429 that is
\* no quota failure, and BASE_DELAY * 2^(a-1) for every other rate-limit
\* failure, a being the number of the attempt that failed.
C14_RetryWait ==
  [][(pc = "insert" /\ pc' = "executor"
        /\ (QuotaFailure(err) \/ RateLimitFailure(err)))
       => wait' = IF QuotaFailure(err) THEN QUOTA_DELAY
                  ELSE IF err.code = 429 THEN RATE_429_DELAY
                  ELSE BASE_DELAY * 2 ^ (attempt - 1)]_vars

\* C15: in every script of the repository, when the processing of index
\* i - 1 has ended with success or with the item recognised as already
\* known, lastProcessed equals i - 1 when index i is about to be started.
C15_CursorAdvances ==
  (pc = "loop" /\ (i - 1) \in okIndices) => progress.lastProcessed = i - 1

\* progress.json has been loaded by this run
Loaded == pc \notin {"start", "loadPosts", "loadState"} /\ PastStartup

\* C16: once a run has loaded its state, lastProcessed, in memory and in
\* progress.json, is the value loaded at the start of the run or the index
\* of an item this run ended with success or skipped.  The handling of a
\* failed item appends one entry to failed and leaves lastProcessed as it
\* is, and progress.json is written with that record at once (a write that
\* fails leaves the file as it was and ends the run).
C16_CursorMarksOnlyDone ==
  [][/\ Loaded' =>
          /\ progress'.lastProcessed \in {startCursor'} \cup okIndices'
          /\ progressFile'.lastProcessed \in {startCursor'} \cup okIndices'
     /\ pc = "caught" =>
          /\ progress'.failed = Append(progress.failed, FailedEntry(i, TitleAt(i)))
          /\ progress'.lastProcessed = progress.lastProcessed
          /\ \/ progressFile' = progress'
             \/ pc' = "fatal" /\ progressFile' = progressFile]_vars

\* a failed item whose index the cursor has not reached, recorded on disk
C16_Witness ==
  /\ pc = "pace"
  /\ Len(progress.failed) > 0
  /\ progress.failed[Len(progress.failed)].index = i
  /\ progress.lastProcessed < i
  /\ i \notin okIndices
  /\ progressFile = progress

\* C17 as stated: at every point of a run the cursor has advanced fewer
\* than 5 times since progress.json was last written, and at completion
\* the lastProcessed of progress.json is the one in memory.
C17_Cadence ==
  /\ unsaved < SAVE_EVERY
  /\ exitAt = "completed" => progressFile.lastProcessed = progress.lastProcessed

\* the write of progress.json due at an advance has failed and the run is
\* in its catch block, or has ended through the top-level handler
CheckpointWriteFailed ==
  /\ err = FsError
  /\ pc \in {"caught", "fatal"} \/ exitAt \in {"fatal", "unhandledRejection"}

\* C17, amended: the cursor has advanced fewer than 5 times since
\* progress.json was last written unless the write that was due at an
\* advance failed, in which case it has advanced at most 5 times; and at
\* completion the lastProcessed of progress.json is the one in memory.
C17_CadenceUnlessWriteFails ==
  /\ unsaved < SAVE_EVERY \/ (unsaved = SAVE_EVERY /\ CheckpointWriteFailed)
  /\ exitAt = "completed" => progressFile.lastProcessed = progress.lastProcessed

\* the tenth advance in a row was saved, as the fifth was, before the last
\* index
C17_Witness ==
  /\ pc = "pace"
  /\ i = 2 * SAVE_EVERY - 1
  /\ i < Len(postsData) - 1
  /\ okIndices = 0..i
  /\ progress.failed = << >>
  /\ unsaved = 0
  /\ progressFile.lastProcessed = i

\* C18: when an insert call is issued, every title for which an earlier
\* insert returned success is in posted_ids.json and in
\* existing_titles.json; and no title ever leaves posted_ids.json.
C18_SuccessPersisted ==
  [][/\ calls' = calls + 1 =>
          \A t \in Titles :
            successes[t] > 0 => t \in postedIdsFile /\ t \in existingTitlesFile
     /\ postedIdsFile \subseteq postedIdsFile']_vars

\* The indices a run that starts after the loaded cursor can reach.
IndicesLeft ==
  IF Len(postsData) > startCursor + 1
    THEN Len(postsData) - (startCursor + 1)
    ELSE 0

\* The insert calls of the run so far are at most this many: the index in
\* hand has had `calls` of them, each index before it at most MAX_RETRIES.
CallsSoFarAtMost ==
  IF processed = << >> THEN 0 ELSE (Len(processed) - 1) * MAX_RETRIES + calls

\* C19: every run reaches process exit, and it issues at most
\* (N - startIndex) * MAX_RETRIES insert calls: each index from the start
\* index on is handed to the executor at most once, in order, and gets at
\* most MAX_RETRIES calls.
C19_Terminates ==
  /\ \A r \in 1..MaxRuns : (run = r) ~> (run = r /\ pc = "exit")
  /\ [](/\ calls <= MAX_RETRIES
        /\ Len(processed) <= IndicesLeft
        /\ \A k \in 1..Len(processed) : processed[k] = startCursor + k
        /\ CallsSoFarAtMost <= IndicesLeft * MAX_RETRIES)

\* a resumed run has ended on the last index using up its retries
C19_Witness ==
  /\ pc = "exit"
  /\ exitAt = "rateLimit"
  /\ startCursor >= 0
  /\ exhaustedAt = Len(postsData) - 1
  /\ Len(processed) = IndicesLeft

\* C20: in every report written on completion or on a rate-limit abort,
\* successfulPosts is never negative and, in a run that started with no
\* state, is the number of indices that ended with success or skipped.
C20_ReportCounts ==
  \A k \in 1..Len(reports) :
    reports[k].terminationReason \in {"Completed normally", RateLimitReason}
      => /\ reports[k].successfulPosts >= 0
         /\ run = 1 => reports[k].successfulPosts = Cardinality(okIndices)

\* C21: the failed list of progress.json holds at most one entry for each
\* index, whatever runs have shared the file.
C21_FailedUnique ==
  \A a \in 1..Len(progressFile.failed), b \in 1..Len(progressFile.failed) :
    a # b => progressFile.failed[a].index # progressFile.failed[b].index

\* the index k has an entry in the failed list p.failed
HasFailedEntry(p, k) == \E a \in 1..Len(p.failed) : p.failed[a].index = k

\* C22: when a run has completed, every index from its start index to the
\* end of the list has its title in the Posted-Identifier Set or in the
\* Existing-Title set, or has an entry in progress.failed.
C22_NoItemLost ==
  exitAt = "completed" =>
    \A k \in (startCursor + 1)..(Len(postsData) - 1) :
      \/ TitleAt(k) \in postedIds \cup existingTitles
      \/ HasFailedEntry(progress, k)

\* a completed run of two indices: the first failed and its title is in
\* neither set, the second was published
C22_Witness ==
  /\ exitAt = "completed"
  /\ startCursor = -1
  /\ Len(postsData) = 2
  /\ TitleAt(0) \notin postedIds \cup existingTitles
  /\ HasFailedEntry(progress, 0)
  /\ ~HasFailedEntry(progress, 1)
  /\ TitleAt(1) \in postedIds

====
